---- MODULE Spec2Model ----
\* The xv6 write-ahead log (kernel/log.c): admission (begin_op/end_op),
\* log_write with absorption, the four-phase commit, and crash recovery,
\* over a disk that survives crashes and a memory that does not.
EXTENDS Integers, FiniteSets

\* ---------------------------------------------------------------- sizes
\* LOGSIZE and MAXOPBLOCKS come from param.h; log.c depends only on their
\* values, taken small here.
LOGSIZE == 2          \* capacity of logheader.block[]
MAXOPBLOCKS == 1      \* blocks one operation may register
start == 2            \* logger.start: block number of the log header
NProcs == 2           \* threads making FS system calls
NHome == 3            \* home blocks the threads write (more than LOGSIZE)
MaxReruns == 1        \* further calls of recover_from_log after initlog's
MaxOps == 2           \* operations of a thread that performs finitely many

Procs == 1..NProcs
\* Block contents. The log only copies them, never looks at them, so two
\* values are enough to tell any block from any other.
Vals == {0, 1}
Idx == 0..(LOGSIZE - 1)
\* sb->nlog values tried: a log region with LOGSIZE data slots, one with a
\* slot less (so that the lh.n >= size - 1 test of log_write decides) and
\* one with a slot more (so that the lh.n >= LOGSIZE test decides).
SizeChoices == {LOGSIZE, LOGSIZE + 1, LOGSIZE + 2}
MaxSize == LOGSIZE + 2
SlotBlocks == (start + 1)..(start + MaxSize - 1)
HomeBlocks == (start + MaxSize)..(start + MaxSize + NHome - 1)
DataBlocks == SlotBlocks \cup HomeBlocks
NoBlock == 0          \* a zero-initialised lh.block[] entry

VARIABLES
  disk,        \* contents of the log slots and home blocks on disk
  dhead,       \* the on-disk log header block: [n, block]; of block[] the
               \* model keeps entries 0..n-1, the only ones log.c ever reads
  cache,       \* buffer cache contents of the home blocks
  pins,        \* bpin/bunpin balance per home block
  lh,          \* logger.lh: [n, block], entries 0..n-1 as for dhead
  outstanding, \* logger.outstanding
  committing,  \* logger.committing
  lock,        \* holder of logger.lock between steps: a thread that
               \* panicked inside a critical section, or (SpecLock) one
               \* that is inside a critical section; 0 when free
  size,        \* logger.size
  boot,        \* position of initlog/recover_from_log, "up" once it returned
  pc,          \* position of each thread
  tail,        \* loop variable of write_log / install_trans per thread
  rtail,       \* loop variable of install_trans(1) in recovery
  panicMsg,    \* message of the panic() that was called, "" if none
  \* history variables
  phase,       \* "idle", "pre" (commit before its first write_head), "post"
  txBefore,    \* home blocks on disk when the last commit started
  txAfter,     \* home blocks the last commit is meant to leave on disk
  txHead,      \* logger.lh when the last commit started
  regd,        \* blocks passed to a successful log_write in the open transaction
  absorbed,    \* the step just taken was a log_write that found its block
               \* in the header already
  rec0,        \* disk, header and lh when recover_from_log was last called
  runs,        \* calls of recover_from_log after the one made by initlog
  hold,        \* the buffer a thread keeps locked: a caller from bread
               \* to brelse around log_write, the committer inside an
               \* iteration of install_trans
  mine,        \* blocks a thread has logged in its current operation
               \* (kept only by the specifications that limit the callers)
  opsDone      \* operations a thread has completed (kept likewise)

Snapshot == [disk |-> disk, dhead |-> dhead, lh |-> lh]

vars == <<disk, dhead, cache, pins, lh, outstanding, committing, lock, size,
          boot, pc, tail, rtail, panicMsg, phase, txBefore, txAfter, txHead,
          regd, absorbed, rec0, runs, mine, opsDone, hold>>

use == <<mine, opsDone>>
hist == <<phase, txBefore, txAfter, txHead, regd, rec0, runs, mine,
          opsDone>>

\* ---------------------------------------------------------------- helpers
Live(n) == {i \in Idx : i < n}
ZeroHead == [n |-> 0, block |-> [i \in Live(0) |-> NoBlock]]
HomeOf(d) == [b \in HomeBlocks |-> d[b]]
HeaderBlocks(h) == {h.block[i] : i \in Live(h.n)}

\* variant of read_head: every entry copied from block[0]
ReadHeadFirstOnly(h, dh) ==
  [n |-> dh.n, block |-> [i \in Live(dh.n) |-> dh.block[0]]]

\* read_head: copy n and the first n entries of the disk header into memory
ReadHead(h, dh) ==
  [n |-> dh.n, block |-> [i \in Live(dh.n) |-> dh.block[i]]]

\* write_head: copy n and the first n entries of lh into the header block
WriteHead(dh, h) ==
  [n |-> h.n, block |-> [i \in Live(h.n) |-> h.block[i]]]

\* variants of write_log: the copy goes to the home block; the copy is
\* taken from the disk instead of the cache
WriteLogOneHome(d, c, h, t) == [d EXCEPT ![h.block[t]] = c[h.block[t]]]
WriteLogOneFromDisk(d, c, h, t) == [d EXCEPT ![start + t + 1] = d[h.block[t]]]

\* one iteration of write_log: cache block -> log slot start+tail+1, bwrite
WriteLogOne(d, c, h, t) == [d EXCEPT ![start + t + 1] = c[h.block[t]]]

\* variant of install_trans: always reads the first log slot
InstallOneFirstSlot(d, h, t) == [d EXCEPT ![h.block[t]] = d[start + 1]]

\* one iteration of install_trans: log slot start+tail+1 -> home block, bwrite
InstallOne(d, h, t) == [d EXCEPT ![h.block[t]] = d[start + t + 1]]

\* variant: the reset of lh.n left out
SetN0Forgot(h) == h

\* logger.lh.n = 0
SetN0(h) == [n |-> 0, block |-> [i \in Live(0) |-> h.block[i]]]

\* variant of begin_op: no test of logger.committing
MustWaitNever(c, n, out) == FALSE
MustWaitForgotSelf(c, n, out) == c = 1 \/ n + out * MAXOPBLOCKS > LOGSIZE
MustWaitNoCommitCheck(c, n, out) == n + (out + 1) * MAXOPBLOCKS > LOGSIZE

\* begin_op's two sleep conditions
MustWait(c, n, out) ==
  \/ c = 1
  \/ n + (out + 1) * MAXOPBLOCKS > LOGSIZE

\* variant of log_write: no absorption, every call appends
AbsorbIndexNone(h, b) == h.n

\* log_write's scan: the first i < n with block[i] = b, else n
AbsorbIndex(h, b) ==
  IF \E i \in Live(h.n) : h.block[i] = b
  THEN CHOOSE i \in Live(h.n) : /\ h.block[i] = b
                                /\ \A j \in Live(i) : h.block[j] # b
  ELSE h.n

\* log_write after its panic tests: the header with b absorbed or appended
LogWriteHead(h, b) ==
  LET i == AbsorbIndex(h, b)
  IN [n |-> IF i = h.n THEN h.n + 1 ELSE h.n,
      block |-> [j \in Live(h.n) \cup {i} |-> IF j = i THEN b ELSE h.block[j]]]

\* variant of log_write: > for >= in the LOGSIZE test
TooBigOffByOne(n, sz) == n > LOGSIZE \/ n >= sz - 1

\* log_write's first panic test
TooBig(n, sz) == n >= LOGSIZE \/ n >= sz - 1

\* variant of end_op: commits with an operation still outstanding
NoneAdmittedBelowZero(out) == out < 0

\* log_write's test for a call outside of a transaction
NoneAdmitted(out) == out < 1

\* variant of end_op: commits while another operation is still outstanding
LastOutOrOne(out) == out <= 1

\* end_op's decision to commit
LastOut(out) == out = 0

\* variant of end_op: committing left at 0
CommittingStays == 1 - 1

\* end_op: logger.committing = 1
CommittingOn == 1

\* wakeup(&logger): every thread asleep on the channel becomes runnable
WakeupNobody(f) == f
Wakeup(f) == [q \in Procs |-> IF f[q] = "sleeping" THEN "begin_wake" ELSE f[q]]

\* positions of a thread inside end_op's "if (do_commit)" block
CommitPcs ==
  {"commit", "write_log", "write_log_relse", "write_head", "install", "unpin",
   "erase", "erase_head", "end2"}

\* ---------------------------------------------------------------- Init
InitMem ==
  /\ cache = HomeOf(disk)
  /\ pins = [b \in HomeBlocks |-> 0]
  /\ lh = ZeroHead
  /\ outstanding = 0
  /\ committing = 0
  /\ lock = 0
  /\ boot = "read_head"
  /\ pc = [p \in Procs |-> "idle"]
  /\ tail = [p \in Procs |-> 0]
  /\ rtail = 0
  /\ panicMsg = ""
  /\ hold = [p \in Procs |-> NoBlock]

InitHist ==
  /\ phase = "idle"
  /\ txBefore = HomeOf(disk)
  /\ txAfter = HomeOf(disk)
  /\ txHead = ZeroHead
  /\ regd = {}
  /\ absorbed = FALSE
  /\ rec0 = Snapshot
  /\ runs = 0
  /\ mine = [p \in Procs |-> {}]
  /\ opsDone = [p \in Procs |-> 0]

\* A freshly made file system: empty log, zeroed blocks.
Init ==
  /\ size \in SizeChoices
  /\ disk = [b \in DataBlocks |-> 0]
  /\ dhead = ZeroHead
  /\ InitMem
  /\ InitHist

\* ---------------------------------------------------------------- recovery
\* Each critical section of logger.lock is one step: a thread takes it when
\* the lock is free and gives the lock back at the end of the step, unless
\* it panics inside, in which case it holds the lock for good.  (SpecLock,
\* further down, takes the critical sections apart.)

RecReadHead ==
  /\ boot = "read_head"
  /\ lh' = ReadHead(lh, dhead)
  /\ boot' = IF dhead.n > 0 THEN "rec_install" ELSE "rec_clear"
  /\ rtail' = 0
  /\ UNCHANGED <<disk, dhead, cache, pins, outstanding, committing, lock, size,
                 pc, tail, panicMsg>>
  /\ UNCHANGED hist
  /\ absorbed' = FALSE
  /\ UNCHANGED hold

RecInstallStepUnpin ==
  /\ boot = "rec_install"
  /\ rtail < lh.n
  /\ disk' = InstallOne(disk, lh, rtail)
  /\ cache' = [cache EXCEPT ![lh.block[rtail]] = disk[start + rtail + 1]]
  /\ pins' = [pins EXCEPT ![lh.block[rtail]] = @ - 1]
  /\ rtail' = rtail + 1
  /\ boot' = IF rtail + 1 < lh.n THEN "rec_install" ELSE "rec_clear"
  /\ UNCHANGED <<dhead, lh, outstanding, committing, lock, size, pc, tail,
                 panicMsg>>
  /\ UNCHANGED hist
  /\ absorbed' = FALSE
  /\ UNCHANGED hold

\* one iteration of install_trans(1): no bunpin
RecInstallStep ==
  /\ boot = "rec_install"
  /\ rtail < lh.n
  /\ disk' = InstallOne(disk, lh, rtail)
  /\ cache' = [cache EXCEPT ![lh.block[rtail]] = disk[start + rtail + 1]]
  /\ rtail' = rtail + 1
  /\ boot' = IF rtail + 1 < lh.n THEN "rec_install" ELSE "rec_clear"
  /\ UNCHANGED <<dhead, pins, lh, outstanding, committing, lock, size, pc, tail,
                 panicMsg>>
  /\ UNCHANGED hist
  /\ absorbed' = FALSE
  /\ UNCHANGED hold

\* logger.lh.n = 0; write_head(); recover_from_log and initlog return
RecClear ==
  /\ boot = "rec_clear"
  /\ lh' = SetN0(lh)
  /\ dhead' = WriteHead(dhead, lh')
  /\ boot' = "up"
  /\ phase' = "idle"
  /\ txBefore' = IF phase = "idle" THEN txBefore ELSE HomeOf(disk)
  /\ txAfter' = IF phase = "idle" THEN txAfter ELSE HomeOf(disk)
  /\ UNCHANGED <<disk, cache, pins, outstanding, committing, lock, size, pc,
                 tail, rtail, panicMsg, txHead, regd, rec0, runs>>
  /\ absorbed' = FALSE
  /\ UNCHANGED use
  /\ UNCHANGED hold

\* ---------------------------------------------------------------- begin_op
\* panic(): the caller never returns and keeps the lock it holds
Panic(p, msg) ==
  /\ pc' = [pc EXCEPT ![p] = "panic"]
  /\ panicMsg' = msg
  /\ lock' = p

\* One pass of begin_op's loop under the lock: sleep, or be admitted.
\* A thread comes here from its call of begin_op or from being woken.
BeginOp(p) ==
  /\ boot = "up"
  /\ pc[p] \in {"idle", "begin_wake"}
  /\ lock = 0
  /\ IF MustWait(committing, lh.n, outstanding)
     THEN /\ pc' = [pc EXCEPT ![p] = "sleeping"]
          /\ UNCHANGED outstanding
     ELSE /\ outstanding' = outstanding + 1
          /\ pc' = [pc EXCEPT ![p] = "in_op"]
  /\ UNCHANGED <<disk, dhead, cache, pins, lh, committing, lock, size, boot,
                 tail, rtail, panicMsg>>
  /\ UNCHANGED hist
  /\ absorbed' = FALSE
  /\ UNCHANGED hold

\* ---------------------------------------------------------------- log_write
\* The use of log_write (lines 188-192) is: bp = bread(...); modify
\* bp->data[]; log_write(bp); brelse(bp).  The first two are one step: the
\* caller takes the buffer of block b (bread waits while another thread
\* keeps it locked) and puts data v into it.  It then stands before
\* log_write with the buffer locked, at position "at".
ModifyCall(p, b, v, at) ==
  /\ boot = "up"
  /\ \A q \in Procs : hold[q] # b
  /\ cache' = [cache EXCEPT ![b] = v]
  /\ hold' = [hold EXCEPT ![p] = b]
  /\ pc' = [pc EXCEPT ![p] = at]
  /\ absorbed' = FALSE
  /\ UNCHANGED <<disk, dhead, pins, lh, outstanding, committing, lock, size,
                 boot, tail, rtail, panicMsg, phase, txBefore, txAfter, txHead,
                 regd, rec0, runs>>

\* a thread inside its operation modifies a block
Modify(p, b, v) ==
  /\ pc[p] = "in_op"
  /\ ModifyCall(p, b, v, "log_write")
  /\ UNCHANGED use

\* a thread that is not inside an operation of its own modifies a block and
\* goes on to call log_write
ModifyOutside(p, b, v) ==
  /\ pc[p] = "idle"
  /\ ModifyCall(p, b, v, "log_write_out")
  /\ UNCHANGED use

\* a thread that keeps to its quota: an operation logs at most MAXOPBLOCKS
\* distinct blocks and may log any of them again
ModifyW(p, b, v) ==
  /\ pc[p] = "in_op"
  /\ b \in mine[p] \/ Cardinality(mine[p]) < MAXOPBLOCKS
  /\ ModifyCall(p, b, v, "log_write")
  /\ mine' = [mine EXCEPT ![p] = @ \cup {b}]
  /\ UNCHANGED opsDone

\* log_write itself, on the buffer the caller holds: one critical section
\* of logger.lock, entered when the lock is free; until then the caller
\* waits in acquire().  log_write never releases the buffer: a thread that
\* panics keeps it locked, one that returns stands before its brelse.
LogWrite(p) ==
  /\ pc[p] \in {"log_write", "log_write_out"}
  /\ lock = 0
  /\ IF TooBig(lh.n, size)
     THEN /\ Panic(p, "too big a transaction")
          /\ absorbed' = FALSE
          /\ UNCHANGED <<lh, pins, regd, hold>>
     ELSE IF NoneAdmitted(outstanding)
     THEN /\ Panic(p, "log_write outside of trans")
          /\ absorbed' = FALSE
          /\ UNCHANGED <<lh, pins, regd, hold>>
     ELSE /\ lh' = LogWriteHead(lh, hold[p])
          /\ pins' = IF lh'.n # lh.n THEN [pins EXCEPT ![hold[p]] = @ + 1]
                     ELSE pins
          /\ regd' = regd \cup {hold[p]}
          /\ absorbed' = (hold[p] \in HeaderBlocks(lh))
          /\ pc' = [pc EXCEPT ![p] = IF pc[p] = "log_write" THEN "brelse"
                                     ELSE "brelse_out"]
          /\ UNCHANGED <<panicMsg, lock, hold>>
  /\ UNCHANGED <<disk, dhead, cache, outstanding, committing, size, boot, tail,
                 rtail, phase, txBefore, txAfter, txHead, rec0, runs>>
  /\ UNCHANGED use

\* brelse(bp) of the caller (line 192): the buffer is free again and the
\* caller is back where it called from
Brelse(p) ==
  /\ pc[p] \in {"brelse", "brelse_out"}
  /\ hold' = [hold EXCEPT ![p] = NoBlock]
  /\ pc' = [pc EXCEPT ![p] = IF pc[p] = "brelse" THEN "in_op" ELSE "idle"]
  /\ UNCHANGED <<disk, dhead, cache, pins, lh, outstanding, committing, lock,
                 size, boot, tail, rtail, panicMsg>>
  /\ UNCHANGED hist
  /\ absorbed' = FALSE

\* ---------------------------------------------------------------- end_op
\* end_op's first critical section
EndOpCall(p) ==
  /\ pc[p] = "in_op"
  /\ lock = 0
  /\ outstanding' = outstanding - 1
  /\ IF committing = 1
     THEN /\ Panic(p, "logger.committing")
          /\ UNCHANGED <<committing, phase, txBefore, txAfter, txHead>>
     ELSE IF LastOut(outstanding')
     THEN /\ committing' = CommittingOn
          /\ pc' = [pc EXCEPT ![p] = "commit"]
          /\ phase' = "pre"
          /\ txBefore' = HomeOf(disk)
          /\ txAfter' = [b \in HomeBlocks |->
                           IF b \in HeaderBlocks(lh) THEN cache[b] ELSE disk[b]]
          /\ txHead' = lh
          /\ UNCHANGED <<panicMsg, lock>>
     ELSE /\ pc' = Wakeup([pc EXCEPT ![p] = "idle"])
          /\ UNCHANGED <<committing, panicMsg, lock, phase, txBefore, txAfter,
                         txHead>>
  /\ UNCHANGED <<disk, dhead, cache, pins, lh, size, boot, tail, rtail, regd,
                 rec0, runs, hold>>
  /\ absorbed' = FALSE

EndOp(p) ==
  /\ EndOpCall(p)
  /\ UNCHANGED use

\* end_op called by a thread that keeps count of its operations
EndOpW(p) ==
  /\ EndOpCall(p)
  /\ mine' = [mine EXCEPT ![p] = {}]
  /\ opsDone' = opsDone

\* ---------------------------------------------------------------- commit
\* commit()'s test of lh.n, made without the lock
CommitStartErasesAnyway(p) ==
  /\ pc[p] = "commit"
  /\ pc' = [pc EXCEPT ![p] = IF lh.n > 0 THEN "write_log" ELSE "erase"]
  /\ tail' = [tail EXCEPT ![p] = 0]
  /\ UNCHANGED <<disk, dhead, cache, pins, lh, outstanding, committing, lock,
                 size, boot, rtail, panicMsg>>
  /\ UNCHANGED hist
  /\ absorbed' = FALSE
  /\ UNCHANGED hold

CommitStartSkipsLog(p) ==
  /\ pc[p] = "commit"
  /\ pc' = [pc EXCEPT ![p] = IF lh.n > 0 THEN "write_head" ELSE "end2"]
  /\ tail' = [tail EXCEPT ![p] = 0]
  /\ UNCHANGED <<disk, dhead, cache, pins, lh, outstanding, committing, lock,
                 size, boot, rtail, panicMsg>>
  /\ UNCHANGED hist
  /\ absorbed' = FALSE
  /\ UNCHANGED hold

CommitStart(p) ==
  /\ pc[p] = "commit"
  /\ pc' = [pc EXCEPT ![p] = IF lh.n > 0 THEN "write_log" ELSE "end2"]
  /\ tail' = [tail EXCEPT ![p] = 0]
  /\ UNCHANGED <<disk, dhead, cache, pins, lh, outstanding, committing, lock,
                 size, boot, rtail, panicMsg>>
  /\ UNCHANGED hist
  /\ absorbed' = FALSE
  /\ UNCHANGED hold

WriteLogStep(p) ==
  /\ pc[p] = "write_log"
  /\ tail[p] < lh.n
  /\ \A q \in Procs : hold[q] # lh.block[tail[p]]
  /\ disk' = WriteLogOne(disk, cache, lh, tail[p])
  /\ hold' = [hold EXCEPT ![p] = lh.block[tail[p]]]
  /\ pc' = [pc EXCEPT ![p] = "write_log_relse"]
  /\ UNCHANGED <<dhead, cache, pins, lh, outstanding, committing, lock, size,
                 boot, tail, rtail, panicMsg>>
  /\ UNCHANGED hist
  /\ absorbed' = FALSE

\* the rest of the iteration: brelse(from), brelse(to), next tail
WriteLogRelse(p) ==
  /\ pc[p] = "write_log_relse"
  /\ hold' = [hold EXCEPT ![p] = NoBlock]
  /\ IF tail[p] + 1 < lh.n
     THEN /\ tail' = [tail EXCEPT ![p] = @ + 1]
          /\ pc' = [pc EXCEPT ![p] = "write_log"]
     ELSE /\ tail' = [tail EXCEPT ![p] = 0]
          /\ pc' = [pc EXCEPT ![p] = "write_head"]
  /\ UNCHANGED <<disk, dhead, cache, pins, lh, outstanding, committing, lock,
                 size, boot, rtail, panicMsg>>
  /\ UNCHANGED hist
  /\ absorbed' = FALSE

\* the first write_head of commit: the commit point
WriteHeadCommit(p) ==
  /\ pc[p] = "write_head"
  /\ dhead' = WriteHead(dhead, lh)
  /\ pc' = [pc EXCEPT ![p] = "install"]
  /\ phase' = "post"
  /\ UNCHANGED <<disk, cache, pins, lh, outstanding, committing, lock, size,
                 boot, tail, rtail, panicMsg, txBefore, txAfter, txHead, regd,
                 rec0, runs>>
  /\ absorbed' = FALSE
  /\ UNCHANGED use
  /\ UNCHANGED hold

\* one iteration of install_trans(0), as far as bwrite(dbuf): the committer
\* takes the buffer of the home block (bread waits while another thread
\* keeps it locked), copies the log block into it and writes it to disk
InstallStep(p) ==
  /\ pc[p] = "install"
  /\ tail[p] < lh.n
  /\ \A q \in Procs : hold[q] # lh.block[tail[p]]
  /\ disk' = InstallOne(disk, lh, tail[p])
  /\ cache' = [cache EXCEPT ![lh.block[tail[p]]] = disk[start + tail[p] + 1]]
  /\ hold' = [hold EXCEPT ![p] = lh.block[tail[p]]]
  /\ pc' = [pc EXCEPT ![p] = "unpin"]
  /\ UNCHANGED <<dhead, pins, lh, outstanding, committing, lock, size, boot,
                 tail, rtail, panicMsg>>
  /\ UNCHANGED hist
  /\ absorbed' = FALSE

\* the rest of the iteration: bunpin(dbuf), brelse, next tail
UnpinStep(p) ==
  /\ pc[p] = "unpin"
  /\ pins' = [pins EXCEPT ![hold[p]] = @ - 1]
  /\ hold' = [hold EXCEPT ![p] = NoBlock]
  /\ IF tail[p] + 1 < lh.n
     THEN /\ tail' = [tail EXCEPT ![p] = @ + 1]
          /\ pc' = [pc EXCEPT ![p] = "install"]
     ELSE /\ tail' = [tail EXCEPT ![p] = 0]
          /\ pc' = [pc EXCEPT ![p] = "erase"]
  /\ UNCHANGED <<disk, dhead, cache, lh, outstanding, committing, lock, size,
                 boot, rtail, panicMsg>>
  /\ UNCHANGED hist
  /\ absorbed' = FALSE

\* logger.lh.n = 0 (line 179), a store made without the lock
CommitSetN0(p) ==
  /\ pc[p] = "erase"
  /\ lh' = SetN0(lh)
  /\ pc' = [pc EXCEPT ![p] = "erase_head"]
  /\ regd' = {}
  /\ UNCHANGED <<disk, dhead, cache, pins, outstanding, committing, lock, size,
                 boot, tail, rtail, panicMsg, phase, txBefore, txAfter, txHead,
                 rec0, runs>>
  /\ absorbed' = FALSE
  /\ UNCHANGED use
  /\ UNCHANGED hold

\* the second write_head of commit (line 180); commit returns
EraseHeadNoWrite(p) ==
  /\ pc[p] = "erase_head"
  /\ pc' = [pc EXCEPT ![p] = "end2"]
  /\ UNCHANGED <<disk, dhead, cache, pins, lh, outstanding, committing, lock,
                 size, boot, tail, rtail, panicMsg>>
  /\ UNCHANGED hist
  /\ absorbed' = FALSE
  /\ UNCHANGED hold

EraseHead(p) ==
  /\ pc[p] = "erase_head"
  /\ dhead' = WriteHead(dhead, lh)
  /\ pc' = [pc EXCEPT ![p] = "end2"]
  /\ UNCHANGED <<disk, cache, pins, lh, outstanding, committing, lock, size,
                 boot, tail, rtail, panicMsg>>
  /\ UNCHANGED hist
  /\ absorbed' = FALSE
  /\ UNCHANGED hold

\* end_op's second critical section
EndOpFinish(p) ==
  /\ pc[p] = "end2"
  /\ lock = 0
  /\ committing' = 0
  /\ pc' = Wakeup([pc EXCEPT ![p] = "idle"])
  /\ phase' = "idle"
  /\ txBefore' = HomeOf(disk)
  /\ txAfter' = HomeOf(disk)
  /\ txHead' = ZeroHead
  /\ absorbed' = FALSE
  /\ UNCHANGED <<disk, dhead, cache, pins, lh, outstanding, lock, size, boot,
                 tail, rtail, panicMsg, regd, rec0, runs>>
  /\ UNCHANGED use
  /\ UNCHANGED hold

\* ---------------------------------------------------------------- crash
\* Power loss: memory is lost, the disk stays, and the kernel boots again
\* into initlog -> recover_from_log.
Crash ==
  /\ cache' = HomeOf(disk)
  /\ pins' = [b \in HomeBlocks |-> 0]
  /\ lh' = ZeroHead
  /\ outstanding' = 0
  /\ committing' = 0
  /\ lock' = 0
  /\ boot' = "read_head"
  /\ pc' = [p \in Procs |-> "idle"]
  /\ tail' = [p \in Procs |-> 0]
  /\ rtail' = 0
  /\ panicMsg' = ""
  /\ hold' = [p \in Procs |-> NoBlock]
  /\ regd' = {}
  /\ absorbed' = FALSE
  /\ txHead' = ZeroHead
  /\ UNCHANGED <<disk, dhead, size, phase, txBefore, txAfter, rec0, runs>>
  /\ UNCHANGED use

\* ---------------------------------------------------------------- Spec
Next ==
  \/ RecReadHead
  \/ RecInstallStep
  \/ RecClear
  \/ Crash
  \/ \E p \in Procs :
       \/ BeginOp(p)
       \/ \E b \in HomeBlocks, v \in Vals : Modify(p, b, v)
       \/ LogWrite(p)
       \/ Brelse(p)
       \/ EndOp(p)
       \/ CommitStart(p)
       \/ WriteLogStep(p)
       \/ WriteLogRelse(p)
       \/ WriteHeadCommit(p)
       \/ InstallStep(p)
       \/ UnpinStep(p)
       \/ CommitSetN0(p)
       \/ EraseHead(p)
       \/ EndOpFinish(p)

Spec == Init /\ [][Next]_vars

\* ------------------------------------------------- callers within quota
\* The state initlog leaves on a freshly made file system.
InitUp ==
  /\ size \in SizeChoices
  /\ disk = [b \in DataBlocks |-> 0]
  /\ dhead = ZeroHead
  /\ cache = HomeOf(disk)
  /\ pins = [b \in HomeBlocks |-> 0]
  /\ lh = ZeroHead
  /\ outstanding = 0
  /\ committing = 0
  /\ lock = 0
  /\ boot = "up"
  /\ pc = [p \in Procs |-> "idle"]
  /\ tail = [p \in Procs |-> 0]
  /\ rtail = 0
  /\ panicMsg = ""
  /\ hold = [p \in Procs |-> NoBlock]
  /\ InitHist

CommitSteps(p) ==
  \/ CommitStart(p)
  \/ WriteLogStep(p)
  \/ WriteLogRelse(p)
  \/ WriteHeadCommit(p)
  \/ InstallStep(p)
  \/ UnpinStep(p)
  \/ CommitSetN0(p)
  \/ EraseHead(p)
  \/ EndOpFinish(p)

NextWB ==
  \E p \in Procs :
    \/ BeginOp(p)
    \/ \E b \in HomeBlocks, v \in Vals : ModifyW(p, b, v)
    \/ LogWrite(p)
    \/ Brelse(p)
    \/ EndOpW(p)
    \/ CommitSteps(p)

SpecWB == InitUp /\ [][NextWB]_vars

\* ------------------------------------------------ finitely many operations
\* Each thread performs MaxOps operations: begin_op, at most MAXOPBLOCKS
\* log_write calls, each for a block the operation has not logged yet, and
\* end_op.  The log never tests the contents of a block, so for progress
\* one value of the data written is enough.
BeginOpL(p) ==
  /\ opsDone[p] < MaxOps
  /\ BeginOp(p)

ModifyL(p, b, v) ==
  /\ pc[p] = "in_op"
  /\ b \notin mine[p]
  /\ Cardinality(mine[p]) < MAXOPBLOCKS
  /\ ModifyCall(p, b, v, "log_write")
  /\ mine' = [mine EXCEPT ![p] = @ \cup {b}]
  /\ UNCHANGED opsDone

EndOpL(p) ==
  /\ EndOpCall(p)
  /\ mine' = [mine EXCEPT ![p] = {}]
  /\ opsDone' = [opsDone EXCEPT ![p] = @ + 1]

ThreadL(p) ==
  \/ BeginOpL(p)
  \/ \E b \in HomeBlocks : ModifyL(p, b, 1)
  \/ LogWrite(p)
  \/ Brelse(p)
  \/ EndOpL(p)
  \/ CommitSteps(p)

NextLive == \E p \in Procs : ThreadL(p)

\* The scheduler runs every thread that can run; wakeup makes a sleeper
\* runnable.
SpecLive ==
  InitUp /\ [][NextLive]_vars /\ \A p \in Procs : WF_vars(ThreadL(p))

\* ------------------------------------------- callers outside an operation
NextMisuse ==
  \E p \in Procs :
    \/ BeginOp(p)
    \/ \E b \in HomeBlocks, v \in Vals : Modify(p, b, v)
    \/ \E b \in HomeBlocks, v \in Vals : ModifyOutside(p, b, v)
    \/ LogWrite(p)
    \/ Brelse(p)
    \/ EndOp(p)
    \/ CommitSteps(p)

SpecMisuse == InitUp /\ [][NextMisuse]_vars


\* ---------------------------------------------------------------- SpecRec
\* recover_from_log on its own: any disk a crash can leave (any contents of
\* the blocks, a header whose first n entries are distinct home blocks),
\* recovered by initlog and then by further calls of recover_from_log.
Min(a, b) == IF a < b THEN a ELSE b

ValidHead(dh, sz) ==
  /\ dh.n <= Min(LOGSIZE, sz - 1)
  /\ \A i \in Live(dh.n) : dh.block[i] \in HomeBlocks
  /\ \A i, j \in Live(dh.n) : (i < j) => dh.block[i] # dh.block[j]

InitRec ==
  /\ size \in SizeChoices
  /\ disk \in [DataBlocks -> Vals]
  /\ \E n \in 0..LOGSIZE :
       /\ dhead \in [n : {n}, block : [Live(n) -> HomeBlocks]]
       /\ ValidHead(dhead, size)
  /\ InitMem
  /\ InitHist

RecoverAgain ==
  /\ boot = "up"
  /\ runs < MaxReruns
  /\ boot' = "read_head"
  /\ runs' = runs + 1
  /\ rec0' = Snapshot
  /\ UNCHANGED <<disk, dhead, cache, pins, lh, outstanding, committing, lock,
                 size, pc, tail, rtail, panicMsg, phase, txBefore, txAfter,
                 txHead, regd>>
  /\ absorbed' = FALSE
  /\ UNCHANGED use
  /\ UNCHANGED hold

NextRec ==
  \/ RecReadHead
  \/ RecInstallStep
  \/ RecClear
  \/ RecoverAgain

SpecRec == InitRec /\ [][NextRec]_vars

\* --------------------------------------------- the lock with its holder
\* begin_op, log_write and end_op taken apart line by line: acquire and
\* release are steps, `lock` names the thread inside the critical section,
\* and each test of a shared field is a step of the thread at that line.
\* commit() and recover_from_log run as above, without the lock.
still == <<disk, dhead, cache, size, boot, tail, rtail, hold>>

\* the second sleep condition of begin_op (line 119)
NoRoom(n, out) == n + (out + 1) * MAXOPBLOCKS > LOGSIZE

\* variant of begin_op: the loop starts at the test of line 119
BeginLoopHeadRoomTest == "b_test_room"

\* where begin_op's loop starts: the test of logger.committing (line 117)
BeginLoopHead == "b_test_c"

\* acquire(&logger.lock) of begin_op (line 115), or sleep() taking the lock
\* again when the thread has been woken (lines 118, 121)
AcquireBegin(p) ==
  /\ boot = "up"
  /\ pc[p] \in {"idle", "begin_wake"}
  /\ lock = 0
  /\ lock' = p
  /\ pc' = [pc EXCEPT ![p] = BeginLoopHead]
  /\ UNCHANGED <<pins, lh, outstanding, committing, panicMsg>>
  /\ UNCHANGED still
  /\ UNCHANGED hist
  /\ absorbed' = FALSE

\* if (logger.committing) sleep(&logger, &logger.lock): sleep gives the
\* lock back
BeginTestCommitting(p) ==
  /\ pc[p] = "b_test_c"
  /\ IF committing # 0
     THEN /\ pc' = [pc EXCEPT ![p] = "sleeping"]
          /\ lock' = 0
     ELSE /\ pc' = [pc EXCEPT ![p] = "b_test_room"]
          /\ UNCHANGED lock
  /\ UNCHANGED <<pins, lh, outstanding, committing, panicMsg>>
  /\ UNCHANGED still
  /\ UNCHANGED hist
  /\ absorbed' = FALSE

\* else if (lh.n + (outstanding + 1) * MAXOPBLOCKS > LOGSIZE) sleep
BeginTestRoom(p) ==
  /\ pc[p] = "b_test_room"
  /\ IF NoRoom(lh.n, outstanding)
     THEN /\ pc' = [pc EXCEPT ![p] = "sleeping"]
          /\ lock' = 0
     ELSE /\ pc' = [pc EXCEPT ![p] = "b_admit"]
          /\ UNCHANGED lock
  /\ UNCHANGED <<pins, lh, outstanding, committing, panicMsg>>
  /\ UNCHANGED still
  /\ UNCHANGED hist
  /\ absorbed' = FALSE

\* logger.outstanding += 1; release
BeginAdmit(p) ==
  /\ pc[p] = "b_admit"
  /\ outstanding' = outstanding + 1
  /\ lock' = 0
  /\ pc' = [pc EXCEPT ![p] = "in_op"]
  /\ UNCHANGED <<pins, lh, committing, panicMsg>>
  /\ UNCHANGED still
  /\ UNCHANGED hist
  /\ absorbed' = FALSE

\* acquire of log_write (line 196)
LwAcquire(p) ==
  /\ pc[p] = "log_write"
  /\ lock = 0
  /\ lock' = p
  /\ pc' = [pc EXCEPT ![p] = "lw_test_big"]
  /\ UNCHANGED <<pins, lh, outstanding, committing, panicMsg>>
  /\ UNCHANGED still
  /\ UNCHANGED hist
  /\ absorbed' = FALSE

\* line 197
LwTestBig(p) ==
  /\ pc[p] = "lw_test_big"
  /\ IF TooBig(lh.n, size)
     THEN Panic(p, "too big a transaction")
     ELSE /\ pc' = [pc EXCEPT ![p] = "lw_test_out"]
          /\ UNCHANGED <<lock, panicMsg>>
  /\ UNCHANGED <<pins, lh, outstanding, committing>>
  /\ UNCHANGED still
  /\ UNCHANGED hist
  /\ absorbed' = FALSE

\* line 198
LwTestOut(p) ==
  /\ pc[p] = "lw_test_out"
  /\ IF NoneAdmitted(outstanding)
     THEN Panic(p, "log_write outside of trans")
     ELSE /\ pc' = [pc EXCEPT ![p] = "lw_scan"]
          /\ UNCHANGED <<lock, panicMsg>>
  /\ UNCHANGED <<pins, lh, outstanding, committing>>
  /\ UNCHANGED still
  /\ UNCHANGED hist
  /\ absorbed' = FALSE

\* lines 200-209: the scan, the store into lh.block[], bpin and lh.n++ for
\* a new block, release
LwRecord(p) ==
  /\ pc[p] = "lw_scan"
  /\ lh' = LogWriteHead(lh, hold[p])
  /\ pins' = IF lh'.n # lh.n THEN [pins EXCEPT ![hold[p]] = @ + 1] ELSE pins
  /\ regd' = regd \cup {hold[p]}
  /\ absorbed' = (hold[p] \in HeaderBlocks(lh))
  /\ lock' = 0
  /\ pc' = [pc EXCEPT ![p] = "brelse"]
  /\ UNCHANGED <<outstanding, committing, panicMsg, phase, txBefore, txAfter,
                 txHead, rec0, runs>>
  /\ UNCHANGED still
  /\ UNCHANGED use

\* acquire of end_op (line 135)
EoAcquire(p) ==
  /\ pc[p] = "in_op"
  /\ lock = 0
  /\ lock' = p
  /\ pc' = [pc EXCEPT ![p] = "eo_dec"]
  /\ UNCHANGED <<pins, lh, outstanding, committing, panicMsg>>
  /\ UNCHANGED still
  /\ UNCHANGED hist
  /\ absorbed' = FALSE

\* logger.outstanding -= 1
EoDec(p) ==
  /\ pc[p] = "eo_dec"
  /\ outstanding' = outstanding - 1
  /\ pc' = [pc EXCEPT ![p] = "eo_test_c"]
  /\ UNCHANGED <<pins, lh, committing, lock, panicMsg>>
  /\ UNCHANGED still
  /\ UNCHANGED hist
  /\ absorbed' = FALSE

\* if (logger.committing) panic("logger.committing")
EoTestCommitting(p) ==
  /\ pc[p] = "eo_test_c"
  /\ IF committing # 0
     THEN Panic(p, "logger.committing")
     ELSE /\ pc' = [pc EXCEPT ![p] = "eo_decide"]
          /\ UNCHANGED <<lock, panicMsg>>
  /\ UNCHANGED <<pins, lh, outstanding, committing>>
  /\ UNCHANGED still
  /\ UNCHANGED hist
  /\ absorbed' = FALSE

\* lines 138-147: the last operation out sets committing and goes on to
\* commit(), any other wakes the sleepers; release
EoDecide(p) ==
  /\ pc[p] = "eo_decide"
  /\ IF LastOut(outstanding)
     THEN /\ committing' = CommittingOn
          /\ pc' = [pc EXCEPT ![p] = "commit"]
          /\ phase' = "pre"
          /\ txBefore' = HomeOf(disk)
          /\ txAfter' = [b \in HomeBlocks |->
                           IF b \in HeaderBlocks(lh) THEN cache[b] ELSE disk[b]]
          /\ txHead' = lh
     ELSE /\ pc' = Wakeup([pc EXCEPT ![p] = "idle"])
          /\ UNCHANGED <<committing, phase, txBefore, txAfter, txHead>>
  /\ lock' = 0
  /\ UNCHANGED <<pins, lh, outstanding, panicMsg, regd, rec0, runs>>
  /\ UNCHANGED still
  /\ UNCHANGED use
  /\ absorbed' = FALSE

\* acquire of end_op after commit() (line 153)
EfAcquire(p) ==
  /\ pc[p] = "end2"
  /\ lock = 0
  /\ lock' = p
  /\ pc' = [pc EXCEPT ![p] = "ef_clear"]
  /\ UNCHANGED <<pins, lh, outstanding, committing, panicMsg>>
  /\ UNCHANGED still
  /\ UNCHANGED hist
  /\ absorbed' = FALSE

\* logger.committing = 0; wakeup; release
EfClear(p) ==
  /\ pc[p] = "ef_clear"
  /\ committing' = 0
  /\ pc' = Wakeup([pc EXCEPT ![p] = "idle"])
  /\ lock' = 0
  /\ phase' = "idle"
  /\ txBefore' = HomeOf(disk)
  /\ txAfter' = HomeOf(disk)
  /\ txHead' = ZeroHead
  /\ UNCHANGED <<pins, lh, outstanding, panicMsg, regd, rec0, runs>>
  /\ UNCHANGED still
  /\ UNCHANGED use
  /\ absorbed' = FALSE

\* a header a crash after the commit point of a one-block transaction leaves
CommittedHead == [n |-> 1, block |-> [i \in Live(1) |-> start + MaxSize]]

\* Boot on a fresh file system or on one with a committed transaction in
\* the log: initlog runs recover_from_log before any thread uses the log.
InitLock ==
  /\ size \in SizeChoices
  /\ disk = [b \in DataBlocks |-> 0]
  /\ dhead \in {ZeroHead, CommittedHead}
  /\ InitMem
  /\ InitHist

NextLock ==
  \/ RecReadHead
  \/ RecInstallStep
  \/ RecClear
  \/ \E p \in Procs :
       \/ AcquireBegin(p)
       \/ BeginTestCommitting(p)
       \/ BeginTestRoom(p)
       \/ BeginAdmit(p)
       \/ \E b \in HomeBlocks, v \in Vals : Modify(p, b, v)
       \/ LwAcquire(p)
       \/ LwTestBig(p)
       \/ LwTestOut(p)
       \/ LwRecord(p)
       \/ Brelse(p)
       \/ EoAcquire(p)
       \/ EoDec(p)
       \/ EoTestCommitting(p)
       \/ EoDecide(p)
       \/ CommitStart(p)
       \/ WriteLogStep(p)
       \/ WriteLogRelse(p)
       \/ WriteHeadCommit(p)
       \/ InstallStep(p)
       \/ UnpinStep(p)
       \/ CommitSetN0(p)
       \/ EraseHead(p)
       \/ EfAcquire(p)
       \/ EfClear(p)

SpecLock == InitLock /\ [][NextLock]_vars

\* ================================================================ claims

\* C1 - a crash before the first write_head of commit completes (phase
\* "pre": the commit test, write_log, the header not yet written) leaves
\* every home block on disk as it was when the commit started, through the
\* recovery that follows, which changes no home block.
C1_HomeKept == phase = "pre" => HomeOf(disk) = txBefore
C1_PreCommitAtomic ==
  /\ [](C1_HomeKept)
  /\ [][phase = "pre" => HomeOf(disk') = HomeOf(disk)]_vars
\* recovery has run after a crash that left a written log slot behind
C1_Witness ==
  /\ phase = "pre"
  /\ boot = "rec_clear"
  /\ \E b \in HomeBlocks : txAfter[b] # txBefore[b] /\ disk[start + 1] = txAfter[b]

\* C2 - after the first write_head of commit (phase "post"), whatever
\* crashes follow, in commit or in recovery, a recover_from_log that runs
\* to its end leaves the home blocks holding exactly the transaction: its
\* logged blocks with their logged contents, every other block as before.
C2_PostCommitDurable ==
  [][(phase = "post" /\ boot = "rec_clear" /\ boot' = "up")
       => HomeOf(disk') = txAfter]_vars
\* recovery has replayed two blocks of a transaction that changed the disk
C2_Witness ==
  /\ phase = "post"
  /\ boot = "rec_clear"
  /\ rtail = 2
  /\ txAfter # txBefore

\* C3 - lh.n stays within 0..LOGSIZE and at most logger.size - 1.
C3_CapacityBound == lh.n >= 0 /\ lh.n <= LOGSIZE /\ lh.n <= size - 1
\* the header is full, the log region has a slot to spare, and a log_write
\* for a block that is not in the header was stopped
C3_Witness ==
  \E p \in Procs :
    /\ pc[p] = "panic" /\ panicMsg = "too big a transaction"
    /\ lh.n = LOGSIZE /\ size - 1 > LOGSIZE
    /\ hold[p] \in HomeBlocks \ HeaderBlocks(lh)

\* C4 - while a commit runs (committing set, a thread inside the commit
\* block of end_op) outstanding is 0 and no thread is inside an operation.
C4_QuiescentCommit ==
  (committing = 1 \/ \E p \in Procs : pc[p] \in CommitPcs)
    => (outstanding = 0 /\ \A q \in Procs : pc[q] \notin {"in_op", "log_write", "brelse"})
\* a begin_op caller sleeps while another thread installs
C4_Witness ==
  \E p, q \in Procs : pc[p] = "install" /\ pc[q] = "sleeping" /\ committing = 1

\* C5 - at most one thread is inside commit at any time (an end_op that set
\* committing while it was set would put a second thread there).
C5_OneCommitter == Cardinality({p \in Procs : pc[p] \in CommitPcs}) <= 1
\* one thread erases the header of a two-block commit, the other is outside
C5_Witness ==
  \E p, q \in Procs : pc[p] = "erase" /\ pc[q] = "idle" /\ lh.n = 2

\* C6 - absorption: the header never holds a block number twice; while the
\* system is up its entries are exactly the blocks log_write was called
\* for, one entry and one slot each; and a log_write for a block already in
\* the header leaves the header as it is.
C6_OneEntryPerBlock ==
  /\ \A i, j \in Live(lh.n) : i # j => lh.block[i] # lh.block[j]
  /\ boot = "up" => (HeaderBlocks(lh) = regd /\ lh.n = Cardinality(regd))
C6_Absorption ==
  /\ [](C6_OneEntryPerBlock)
  /\ [][\A p \in Procs :
          (LogWrite(p) /\ hold[p] \in HeaderBlocks(lh)) => lh' = lh]_vars
\* log_write has just returned for a block that was in the header already,
\* and the header has one entry
C6_Witness == absorbed /\ lh.n = 1 /\ panicMsg = ""

\* C7 - when commit has returned, the log slot and the home block of every
\* block that was in the header hold the contents the buffer cache had for
\* it when the commit started, i.e. the last contents logged.
C7_LatestInstalled ==
  \A p \in Procs : pc[p] = "end2" =>
    \A i \in Live(txHead.n) :
      /\ disk[start + i + 1] = txAfter[txHead.block[i]]
      /\ disk[txHead.block[i]] = txAfter[txHead.block[i]]
      /\ cache[txHead.block[i]] = txAfter[txHead.block[i]]
\* a two-block commit that changed both home blocks has returned
C7_Witness ==
  \E p \in Procs :
    /\ pc[p] = "end2" /\ txHead.n = 2
    /\ \A i \in Live(txHead.n) : txAfter[txHead.block[i]] # txBefore[txHead.block[i]]

\* C8 - recover_from_log called again right after recover_from_log never
\* enters the install loop (writes no home block) and ends with the disk,
\* the disk header and lh as the first call left them.
C8_IdempotentRecovery ==
  runs >= 1 => (boot # "rec_install" /\ (boot = "up" => Snapshot = rec0))
\* the second call has returned, the first one having changed home blocks
C8_Witness == runs = 1 /\ boot = "up" /\ txBefore # HomeOf(disk)

\* C9 - recover_from_log on a header of count k: at its end home block
\* b[i] holds log slot start+i+1 for each i < k, the other home blocks are
\* untouched and both header counts are 0; with k = 0 it never enters the
\* install loop and changes nothing on disk.
C9_RecoveryReplay ==
  /\ boot = "up" =>
       /\ \A i \in Live(rec0.dhead.n) :
            disk[rec0.dhead.block[i]] = rec0.disk[start + i + 1]
       /\ \A b \in HomeBlocks \ HeaderBlocks(rec0.dhead) : disk[b] = rec0.disk[b]
       /\ dhead.n = 0
       /\ lh.n = 0
  /\ rec0.dhead.n = 0 =>
       (boot # "rec_install" /\ disk = rec0.disk /\ dhead = rec0.dhead)
\* the first recovery replayed two blocks and changed the disk by it
C9_Witness ==
  /\ boot = "up"
  /\ runs = 0
  /\ rec0.dhead.n = 2
  /\ HomeOf(disk) # HomeOf(rec0.disk)

\* C10 - an end_op starts commit exactly when its decrement leaves
\* outstanding at 0, and commit is started by nothing else; an end_op that
\* leaves outstanding above 0 returns without touching disk, header or
\* committing; the commit that starts covers every block logged since the
\* previous one.
C10_GroupCommit ==
  [][\A p \in Procs :
       /\ EndOp(p) =>
            /\ (outstanding' = 0) <=> (pc'[p] = "commit")
            /\ outstanding' > 0 =>
                 (pc'[p] = "idle" /\ UNCHANGED <<disk, dhead, lh, committing>>)
            /\ pc'[p] = "commit" =>
                 (committing' = 1 /\ HeaderBlocks(lh) = regd /\ txHead' = lh)
       /\ (pc[p] # "commit" /\ pc'[p] = "commit") => EndOp(p)]_vars
\* the last of two threads to leave starts the commit of two blocks
C10_Witness ==
  \E p, q \in Procs :
    /\ pc[p] = "commit"
    /\ pc[q] = "idle"
    /\ outstanding = 0
    /\ Cardinality(regd) = 2

\* C11 - Header erased after commit.  Once commit() or recover_from_log() has
\* returned and no commit is in progress, the header on disk has count 0,
\* and with no operation outstanding either the header in memory has count
\* 0 too.  A count above 0 is on disk only between the write_head of the
\* commit point and the write_head that erases it: while the committer
\* installs or is about to erase, or after a crash until recovery has
\* cleared the header.
C11_HeaderErased ==
  /\ (boot = "up" /\ committing = 0) => dhead.n = 0
  /\ (boot = "up" /\ committing = 0 /\ outstanding = 0) => lh.n = 0
  /\ \A p \in Procs : pc[p] = "end2" => (dhead.n = 0 /\ lh.n = 0)
  /\ dhead.n > 0 =>
       \/ boot # "up"
       \/ \E p \in Procs : pc[p] \in {"install", "unpin", "erase", "erase_head"}

C11_Witness ==
  /\ boot = "up" /\ committing = 0 /\ outstanding = 0
  /\ \A p \in Procs : pc[p] = "idle"
  /\ \A b \in HomeBlocks : disk[b] = 1
  /\ dhead.n = 0 /\ lh.n = 0

\* C12 - Reservation suffices.  When the log region has room for LOGSIZE
\* blocks (size - 1 >= LOGSIZE) and every admitted operation logs at most
\* MAXOPBLOCKS distinct home blocks, logging any of them again as it likes,
\* no log_write reaches the halt "too big a transaction".
C12_NoTooBig ==
  size - 1 >= LOGSIZE => panicMsg # "too big a transaction"

\* C13 - Admission guard.  begin_op increments outstanding only when
\* committing == 0 and lh.n + (outstanding + 1) * MAXOPBLOCKS <= LOGSIZE,
\* the test and the increment being one critical section of the lock;
\* otherwise the caller goes to sleep and outstanding, committing and the
\* header stay as they were.  Nothing else increments outstanding.
C13_AdmissionGuard ==
  [][/\ \A p \in Procs :
          BeginOp(p) =>
            IF /\ committing = 0
               /\ lh.n + (outstanding + 1) * MAXOPBLOCKS <= LOGSIZE
            THEN /\ outstanding' = outstanding + 1
                 /\ pc'[p] = "in_op"
                 /\ UNCHANGED <<committing, lh, lock>>
            ELSE /\ pc'[p] = "sleeping"
                 /\ UNCHANGED <<outstanding, committing, lh, lock>>
     /\ outstanding' > outstanding =>
          \E p \in Procs : BeginOp(p) /\ pc'[p] = "in_op"]_vars

C13_Witness ==
  \E p, q \in Procs :
    /\ pc[p] = "sleeping" /\ pc[q] = "in_op"
    /\ committing = 0 /\ outstanding = 1 /\ lh.n = 1

\* C14 - log_write outside an operation is fatal.  A log_write call by a
\* caller that is not inside an admitted operation of its own always ends
\* in the halt "log_write outside of trans" and adds no entry to the
\* header, whatever the other threads are doing.
C14_OutsideAlwaysFatal ==
  [][\A p \in Procs :
       (pc[p] = "log_write_out" /\ LogWrite(p)) =>
         /\ pc'[p] = "panic"
         /\ panicMsg' = "log_write outside of trans"
         /\ lh' = lh]_vars

\* C14, as the code has it.  The call is fatal and adds no entry when no
\* operation at all is admitted (outstanding == 0): the halt is "log_write
\* outside of trans", or "too big a transaction" when the header is full at
\* that moment, as it can be while a commit runs.  While another thread's
\* operation is admitted and the header has room the call is not detected:
\* it returns and its block is in the header.  The call gets past
\* acquire() only when the lock is free; it waits there otherwise.
C14_FatalWhenNoneAdmitted ==
  [][\A p \in Procs :
       (pc[p] = "log_write_out" /\ LogWrite(p)) =>
         /\ lock = 0
         /\ IF lh.n >= LOGSIZE \/ lh.n >= size - 1
            THEN /\ pc'[p] = "panic" /\ lh' = lh
                 /\ panicMsg' = "too big a transaction"
            ELSE IF outstanding = 0
            THEN /\ pc'[p] = "panic" /\ lh' = lh
                 /\ panicMsg' = "log_write outside of trans"
            ELSE /\ pc'[p] = "brelse_out" /\ panicMsg' = ""
                 /\ hold[p] \in HeaderBlocks(lh')]_vars

C14_Witness ==
  \E p, q \in Procs :
    /\ pc[p] = "panic" /\ panicMsg = "log_write outside of trans"
    /\ pc[q] \in CommitPcs /\ outstanding = 0 /\ lh.n = 1

\* C15 - Commit phase ordering.  A commit with lh.n > 0 writes the disk in
\* this order: all n log slots, then the header once with count n, then
\* all n home blocks, then (lh.n set to 0) the header once with count 0.
\* Stated as what
\* is on disk at each position of the committer, which position follows
\* which, and from which position each kind of block is written.
C15_AtPosition ==
  \A p \in Procs :
    /\ pc[p] \in {"write_log", "write_log_relse"} =>
         /\ lh.n > 0 /\ dhead.n = 0 /\ HomeOf(disk) = txBefore
         /\ \A i \in Live(lh.n) :
              (i < tail[p] \/ (i = tail[p] /\ pc[p] = "write_log_relse")) =>
                disk[start + i + 1] = cache[lh.block[i]]
    /\ pc[p] = "write_head" =>
         /\ lh.n > 0 /\ dhead.n = 0 /\ HomeOf(disk) = txBefore
         /\ \A i \in Live(lh.n) : disk[start + i + 1] = cache[lh.block[i]]
    /\ pc[p] \in {"install", "unpin"} =>
         /\ lh.n > 0 /\ dhead = lh
         /\ \A i \in Live(lh.n) :
              disk[lh.block[i]] =
                IF i < tail[p] \/ (i = tail[p] /\ pc[p] = "unpin")
                THEN txAfter[lh.block[i]] ELSE txBefore[lh.block[i]]
    /\ pc[p] = "erase" => (lh.n > 0 /\ dhead = lh /\ HomeOf(disk) = txAfter)
    /\ pc[p] = "erase_head" =>
         (lh.n = 0 /\ dhead = txHead /\ HomeOf(disk) = txAfter)
    /\ (pc[p] = "end2" /\ txHead.n > 0) =>
         (dhead.n = 0 /\ HomeOf(disk) = txAfter)

C15_Order ==
  {<<"commit", "write_log">>, <<"write_log", "write_log_relse">>,
   <<"write_log_relse", "write_log">>, <<"write_log_relse", "write_head">>,
   <<"write_head", "install">>, <<"install", "unpin">>,
   <<"unpin", "install">>, <<"unpin", "erase">>, <<"erase", "erase_head">>,
   <<"erase_head", "end2">>, <<"end2", "idle">>}

C15_PhaseOrdering ==
  /\ []C15_AtPosition
  /\ [][\A p \in Procs :
          /\ (pc[p] \in CommitPcs /\ txHead.n > 0 /\ boot' = "up"
                /\ pc'[p] # pc[p]) => <<pc[p], pc'[p]>> \in C15_Order
          /\ (boot = "up" /\ pc[p] \in CommitPcs) =>
               /\ (\E b \in SlotBlocks : disk'[b] # disk[b]) =>
                    pc[p] = "write_log"
               /\ (dhead' # dhead /\ dhead'.n > 0) => pc[p] = "write_head"
               /\ HomeOf(disk') # HomeOf(disk) => pc[p] = "install"
               /\ (dhead' # dhead /\ dhead'.n = 0) => pc[p] = "erase_head"]_vars

C15_Witness ==
  \E p \in Procs :
    /\ pc[p] = "erase" /\ lh.n = 2 /\ dhead.n = 2
    /\ \A b \in HeaderBlocks(lh) : disk[b] # txBefore[b]

\* C16 - Pin balance.  A block is pinned once per transaction, when it is
\* first put in the header, stays pinned while it has a header entry, and
\* is unpinned once, when install_trans(0) has written it home: its pin
\* count is 1 exactly while it is in the header and install_trans(0) has
\* not yet finished its iteration for it, else 0, so
\* after commit() no log pin is left.  recover_from_log changes no pin.
C16_Installed(b) ==
  \E p \in Procs :
    \/ pc[p] = "erase"
    \/ pc[p] \in {"install", "unpin"} /\ \E i \in Live(tail[p]) : lh.block[i] = b

C16_Pins ==
  \A b \in HomeBlocks :
    pins[b] = IF boot = "up" /\ b \in HeaderBlocks(lh) /\ ~C16_Installed(b)
              THEN 1 ELSE 0

C16_PinBalance ==
  /\ []C16_Pins
  /\ [][boot # "up" => pins' = pins]_vars

C16_Witness ==
  \E p \in Procs :
    /\ pc[p] = "install" /\ tail[p] = 1 /\ lh.n = 2
    /\ pins[lh.block[0]] = 0 /\ pins[lh.block[1]] = 1

\* C17 - end_op never overlaps a commit.  When every end_op follows a
\* begin_op of the same thread that was admitted, no thread is inside an
\* operation while committing == 1, so end_op never reaches
\* panic("logger.committing"), and outstanding is never negative.
C17_NoOverlap ==
  /\ panicMsg # "logger.committing"
  /\ outstanding >= 0
  /\ committing = 1 => \A p \in Procs : pc[p] \notin {"in_op", "log_write", "brelse"}

C17_Witness ==
  \E p, q \in Procs :
    /\ pc[p] = "end2" /\ pc[q] = "sleeping"
    /\ committing = 1 /\ outstanding = 0 /\ txHead.n = 1

\* C18 - Termination and no deadlock.  With MAXOPBLOCKS <= LOGSIZE, finitely
\* many threads that each perform finitely many operations (begin_op, at
\* most MAXOPBLOCKS log_write calls, end_op) and a fair scheduler: every
\* begin_op caller is admitted in the end, every commit finishes, and the
\* system comes to rest with all operations done and outstanding == 0,
\* committing == 0, lh.n == 0.
C18_Rest ==
  /\ \A p \in Procs : pc[p] = "idle" /\ opsDone[p] = MaxOps
  /\ outstanding = 0 /\ committing = 0 /\ lh.n = 0

\* Coming to rest takes all of it: a begin_op caller that is never admitted
\* leaves its operations undone, a commit that never finishes leaves
\* committing at 1, and a deadlock leaves the system short of rest.
C18_Progress == <>[]C18_Rest

C18_Terminates == C18_Progress

\* C18, as the code has it: the same, provided the log region has room for
\* LOGSIZE blocks (size - 1 >= LOGSIZE).  In a smaller region log_write
\* halts in "too big a transaction" with the lock held, and nothing that
\* needs the lock moves again.
C18_TerminatesWithRoom == (size - 1 >= LOGSIZE) => C18_Progress

C18_Witness ==
  /\ C18_Rest /\ size - 1 >= LOGSIZE
  /\ \E b, c \in HomeBlocks : b # c /\ disk[b] = 1 /\ disk[c] = 1

\* C19 - Empty commit is a no-op.  A commit that finds lh.n == 0 writes
\* nothing to disk and changes no pin: from its start the committer goes
\* straight to the end of commit().  committing is 1 meanwhile, and the
\* second critical section of end_op sets it to 0 and wakes every sleeper.
C19_EmptyCommit ==
  /\ [](\A p \in Procs : pc[p] \in CommitPcs => committing = 1)
  /\ [][\A p \in Procs :
          (pc[p] \in CommitPcs /\ txHead.n = 0 /\ boot' = "up") =>
            /\ UNCHANGED <<disk, dhead, pins, lh>>
            /\ pc'[p] # pc[p] =>
                 \/ pc[p] = "commit" /\ pc'[p] = "end2" /\ committing' = 1
                 \/ /\ pc[p] = "end2" /\ pc'[p] = "idle" /\ committing' = 0
                    /\ \A q \in Procs : pc'[q] # "sleeping"]_vars

C19_Witness ==
  \E p, q \in Procs :
    /\ pc[p] = "end2" /\ txHead.n = 0 /\ phase = "pre"
    /\ pc[q] = "sleeping" /\ committing = 1

\* C20 - No race on the header during commit.  commit() reads the header
\* and resets lh.n without the lock.  With well-bracketed use no other
\* thread reads or writes the header while committing == 1.  Every access
\* to outstanding, committing or the header by a thread other than the
\* committer is made while that thread holds the lock: this, as the claim
\* has it, counts the thread that runs recover_from_log.
\*
\* Positions whose step reads or writes the header: line 119, line 197,
\* lines 200-207.
C20_HeaderPcs == {"b_test_room", "lw_test_big", "lw_scan"}
\* ... or outstanding or committing: lines 117, 123, 198, 136, 137,
\* 138-140, 154.
C20_SharedPcs ==
  C20_HeaderPcs \cup
    {"b_test_c", "b_admit", "lw_test_out", "eo_dec", "eo_test_c", "eo_decide",
     "ef_clear"}

C20_UnderLock == \A p \in Procs : pc[p] \in C20_SharedPcs => lock = p
C20_QuietHeader ==
  committing = 1 => \A p \in Procs : pc[p] \notin C20_HeaderPcs
C20_CommitterUnlocked == \A p \in Procs : pc[p] \in CommitPcs => lock # p

C20_NoHeaderRace ==
  /\ [](/\ C20_UnderLock
        /\ C20_QuietHeader
        /\ C20_CommitterUnlocked
        /\ boot # "up" => lock # 0)
  /\ [][/\ outstanding' # outstanding =>
             \E p \in Procs : lock = p /\ pc[p] \in {"b_admit", "eo_dec"}
        /\ committing' # committing =>
             \E p \in Procs : lock = p /\ pc[p] \in {"eo_decide", "ef_clear"}
        /\ lh' # lh =>
             \E p \in Procs : \/ lock = p /\ pc[p] = "lw_scan"
                              \/ lock # p /\ pc[p] = "erase"]_vars

\* C20, as the code has it.  After initlog has returned the claim holds:
\* begin_op, log_write and the two critical sections of end_op touch
\* outstanding, committing and the header only with the lock held, none of
\* them is at a line that touches the header while committing == 1, and
\* the committer works on the header without the lock.  recover_from_log
\* reads and writes the header without the lock too; it runs inside
\* initlog, while the lock is free and no thread has called into the log.
C20_BootAlone ==
  boot # "up" => (lock = 0 /\ \A p \in Procs : pc[p] = "idle")

C20_LockedAfterBoot ==
  /\ [](/\ C20_UnderLock
        /\ C20_QuietHeader
        /\ C20_CommitterUnlocked
        /\ C20_BootAlone)
  /\ [][/\ outstanding' # outstanding =>
             \E p \in Procs : lock = p /\ pc[p] \in {"b_admit", "eo_dec"}
        /\ committing' # committing =>
             \E p \in Procs : lock = p /\ pc[p] \in {"eo_decide", "ef_clear"}
        /\ lh' # lh =>
             \/ boot # "up"
             \/ \E p \in Procs : \/ lock = p /\ pc[p] = "lw_scan"
                                 \/ lock # p /\ pc[p] = "erase"]_vars

\* the committer has reset lh.n of a two-block transaction and has not yet
\* erased the disk header, while another thread holds the lock in begin_op,
\* about to test committing
C20_Witness ==
  \E p, q \in Procs :
    /\ pc[p] = "erase_head" /\ lh.n = 0 /\ dhead.n = 2 /\ committing = 1
    /\ pc[q] = "b_test_c" /\ lock = q

====
